---- MODULE Spec2Model ----
(***************************************************************************)
(* Workshop Progression & Checkpoint State Engine of the green-software    *)
(* lab: the backup/restore state machine (yaml_utils/restore_files.py),    *)
(* the schedule conflict detector (yaml_utils/schedule_utils.py), the      *)
(* completion-state analysis of the CLI (cli.py) and the checkpoint-3      *)
(* validator (workshop_validation/validate_checkpoint_3.py).               *)
(*                                                                         *)
(* Spec          the BackupManager operations on the files on disk,        *)
(*               interleaved with a learner editing the tracked files.     *)
(* SpecProgress  the two places that decide the completion of the stages,  *)
(*               applied to bounded deployment / artifact / schedule       *)
(*               contents.                                                 *)
(*                                                                         *)
(* Python's True / False / None are the strings "True", "False", "None".   *)
(* shutil.copy2 is modelled as raising exactly when its source is absent.  *)
(***************************************************************************)
EXTENDS Integers, Sequences, FiniteSets, TLC

VARIABLES
    disk,        \* Spec: file name -> content, or Absent
    manager,     \* Spec: a BackupManager instance has been constructed
    call,        \* the last operation and its arguments
    ret,         \* what the last operation returned
    deployment,  \* SpecProgress: deployment.yaml, a sequence of service names, or NoFile
    artifact,    \* SpecProgress: get_market_data.py, a sequence of lines, or NoFile
    schedule,    \* SpecProgress: schedule.yaml, a sequence of jobs, or NoFile
    state,       \* SpecProgress: the completion vector of the last analysis
    services,    \* SpecServices: ServiceManager.services with each simulator's base
    alerts,      \* SpecServices: the alerts the last operation derived
    output,      \* SpecServices: the workshop blocks the last operation printed
    invoked,     \* the stage tests the last command evaluated
    original,    \* SpecValidate: deployment_original.yaml as the validator parses it
    monitor      \* SpecHistory: the Monitor's history and max_history

vars ==
    <<disk, manager, call, ret, deployment, artifact, schedule, state,
      services, alerts, output, invoked, original, monitor>>

Absent == "<absent>"

(***************************************************************************)
(* Files                                                                   *)
(***************************************************************************)
yaml_file_path == "deployment.yaml"
get_market_data_path == "get_market_data.py"
schedule_yaml_path == "schedule.yaml"
original_backup_path == "deployment_original.yaml"
schedule_original_backup_path == "schedule_original.yaml"
get_market_data_backup_path == "get_market_data_original.py"
get_market_data_optimized_backup_path == "get_market_data_optimized.py"
deployment_2_backup_path == "deployment_2.yaml"

TrackedFiles == {yaml_file_path, get_market_data_path, schedule_yaml_path}

OriginalFiles ==
    {original_backup_path, schedule_original_backup_path, get_market_data_backup_path}

\* create_checkpoint_backup's argument; "None" stands for the omitted name,
\* which the code replaces by a timestamped one.
CheckpointNames == {"None", "original", "2"}

checkpoint_backup_path(checkpoint_name) ==
    "deployment_"
        \o (IF checkpoint_name = "None" THEN "checkpoint_ts" ELSE checkpoint_name)
        \o ".yaml"

SnapshotFiles ==
    OriginalFiles
        \cup {deployment_2_backup_path, get_market_data_optimized_backup_path}
        \cup {checkpoint_backup_path(n) : n \in CheckpointNames}

Files == TrackedFiles \cup SnapshotFiles

\* File contents are opaque to the BackupManager: two distinct ones show a copy.
Contents == {"A", "B"}

ConfirmInputs == {"RESET", "", "reset"}

ExerciseIds == {"checkpoint2-start", "checkpoint3-start", "checkpoint5-start"}

(***************************************************************************)
(* BackupManager                                                           *)
(***************************************************************************)
exists(d, f) == d[f] # Absent

copy2(d, src, dst) == [d EXCEPT ![dst] = d[src]]

\* A backup block that moves the file into the backup instead of copying it.
backup_once_moving(d, file, backup) ==
    IF d[backup] = Absent /\ d[file] # Absent
    THEN [d EXCEPT ![backup] = d[file], ![file] = Absent]
    ELSE d

\* One "if not backup.exists() and file.exists(): copy2(file, backup)" block.
backup_once(d, file, backup) ==
    IF ~exists(d, backup) /\ exists(d, file) THEN copy2(d, file, backup) ELSE d

backup_always(d, file, backup) ==
    IF exists(d, file) THEN copy2(d, file, backup) ELSE d

ensure_original_backup_overwriting(d) ==
    backup_always(
        backup_always(
            backup_always(d, yaml_file_path, original_backup_path),
            schedule_yaml_path, schedule_original_backup_path),
        get_market_data_path, get_market_data_backup_path)

ensure_original_backup(d) ==
    backup_once(
        backup_once(
            backup_once(d, yaml_file_path, original_backup_path),
            schedule_yaml_path, schedule_original_backup_path),
        get_market_data_path, get_market_data_backup_path)

create_checkpoint_backup(d, checkpoint_name) ==
    LET backup_path == checkpoint_backup_path(checkpoint_name)
    IN  IF exists(d, yaml_file_path)
        THEN [disk |-> copy2(d, yaml_file_path, backup_path), ret |-> backup_path]
        ELSE [disk |-> d, ret |-> ""]

restore_original(d) ==
    LET d0 == ensure_original_backup(d)
        d1 == copy2(d0, original_backup_path, yaml_file_path)
        d2 == copy2(d1, get_market_data_backup_path, get_market_data_path)
        d3 == copy2(d2, schedule_original_backup_path, schedule_yaml_path)
    IN  IF ~exists(d0, original_backup_path) THEN [disk |-> d0, ret |-> "False"]
        ELSE IF ~exists(d1, get_market_data_backup_path) THEN [disk |-> d1, ret |-> "False"]
        ELSE IF ~exists(d2, schedule_original_backup_path) THEN [disk |-> d2, ret |-> "False"]
        ELSE [disk |-> d3, ret |-> "None"]

reset_original_backup_lax(d, confirm) ==
    IF exists(d, original_backup_path) /\ confirm \notin {"RESET", ""}
    THEN [disk |-> d, ret |-> "False"]
    ELSE IF exists(d, yaml_file_path)
    THEN [disk |-> copy2(d, yaml_file_path, original_backup_path), ret |-> "True"]
    ELSE [disk |-> d, ret |-> "False"]

reset_original_backup(d, confirm) ==
    IF exists(d, original_backup_path) /\ confirm # "RESET"
    THEN [disk |-> d, ret |-> "False"]
    ELSE IF exists(d, yaml_file_path)
    THEN [disk |-> copy2(d, yaml_file_path, original_backup_path), ret |-> "True"]
    ELSE [disk |-> d, ret |-> "False"]

\* One "if backup.exists(): copy2(backup, file) else: success = False" block.
restore_file(acc, backup, file) ==
    IF exists(acc.disk, backup)
    THEN [disk |-> copy2(acc.disk, backup, file), success |-> acc.success]
    ELSE [disk |-> acc.disk, success |-> FALSE]

\* The snapshot each branch of restore_exercise_state copies onto get_market_data.py.
python_backup_swapped(exercise_id) ==
    IF exercise_id = "checkpoint2-start"
    THEN get_market_data_optimized_backup_path
    ELSE get_market_data_backup_path

python_backup(exercise_id) ==
    IF exercise_id = "checkpoint2-start"
    THEN get_market_data_backup_path
    ELSE get_market_data_optimized_backup_path

restore_exercise_state(d, exercise_id) ==
    IF exercise_id \in {"checkpoint2-start", "checkpoint3-start"}
    THEN LET a1 == restore_file([disk |-> d, success |-> TRUE],
                                deployment_2_backup_path, yaml_file_path)
             a2 == restore_file(a1, python_backup(exercise_id), get_market_data_path)
             a3 == restore_file(a2, schedule_original_backup_path, schedule_yaml_path)
         IN  [disk |-> a3.disk, ret |-> IF a3.success THEN "True" ELSE "False"]
    ELSE [disk |-> d, ret |-> "False"]

\* A file of the progression engine: whether it can be read, and what it holds.
NoFile == [exists |-> FALSE, content |-> <<>>]

File(content) == [exists |-> TRUE, content |-> content]

NothingComplete ==
    [checkpoint_1_complete |-> FALSE,
     checkpoint_2_complete |-> FALSE,
     checkpoint_3_complete |-> FALSE]

\* No Monitor has been constructed.
NoMonitor == [history |-> <<>>, max_history |-> 0]

\* No ServiceManager has been constructed and no command has run.
NoServiceManager ==
    /\ services = <<>>
    /\ alerts = <<>>
    /\ output = {}
    /\ invoked = {}
    /\ original = NoFile
    /\ monitor = NoMonitor

(***************************************************************************)
(* Spec: the BackupManager operations and the learner's edits              *)
(***************************************************************************)
NoProgressInputs ==
    /\ deployment = NoFile
    /\ artifact = NoFile
    /\ schedule = NoFile
    /\ state = NothingComplete
    /\ NoServiceManager

Init ==
    /\ disk \in [Files -> Contents \cup {Absent}]
    /\ manager = FALSE
    /\ call = <<"start">>
    /\ ret = "None"
    /\ NoProgressInputs

\* BackupManager.__init__: the paths are fixed, then _ensure_original_backup runs.
Construct ==
    /\ disk' = ensure_original_backup(disk)
    /\ manager' = TRUE
    /\ call' = <<"__init__">>
    /\ ret' = "None"
    /\ UNCHANGED <<deployment, artifact, schedule, state, services, alerts, output, invoked, original, monitor>>

CreateCheckpointBackup ==
    /\ manager
    /\ \E checkpoint_name \in CheckpointNames :
        LET r == create_checkpoint_backup(disk, checkpoint_name)
        IN  /\ disk' = r.disk
            /\ ret' = r.ret
            /\ call' = <<"create_checkpoint_backup", checkpoint_name>>
    /\ UNCHANGED <<manager, deployment, artifact, schedule, state, services, alerts, output, invoked, original, monitor>>

RestoreOriginal ==
    /\ manager
    /\ LET r == restore_original(disk)
       IN  /\ disk' = r.disk
           /\ ret' = r.ret
    /\ call' = <<"restore_original">>
    /\ UNCHANGED <<manager, deployment, artifact, schedule, state, services, alerts, output, invoked, original, monitor>>

ResetOriginalBackup ==
    /\ manager
    /\ \E confirm \in ConfirmInputs :
        LET r == reset_original_backup(disk, confirm)
        IN  /\ disk' = r.disk
            /\ ret' = r.ret
            /\ call' = <<"reset_original_backup", confirm>>
    /\ UNCHANGED <<manager, deployment, artifact, schedule, state, services, alerts, output, invoked, original, monitor>>

RestoreExerciseState ==
    /\ manager
    /\ \E exercise_id \in ExerciseIds :
        LET r == restore_exercise_state(disk, exercise_id)
        IN  /\ disk' = r.disk
            /\ ret' = r.ret
            /\ call' = <<"restore_exercise_state", exercise_id>>
    /\ UNCHANGED <<manager, deployment, artifact, schedule, state, services, alerts, output, invoked, original, monitor>>

\* The learner (or a test) rewrites, creates or deletes a tracked file.
LearnerEdit ==
    /\ \E f \in TrackedFiles, c \in Contents \cup {Absent} :
        /\ disk[f] # c
        /\ disk' = [disk EXCEPT ![f] = c]
        /\ call' = <<"edit", f>>
    /\ ret' = "None"
    /\ UNCHANGED <<manager, deployment, artifact, schedule, state, services, alerts, output, invoked, original, monitor>>

Next ==
    \/ Construct
    \/ CreateCheckpointBackup
    \/ RestoreOriginal
    \/ ResetOriginalBackup
    \/ RestoreExerciseState
    \/ LearnerEdit

Spec == Init /\ [][Next]_vars

(***************************************************************************)
(* Claims about the BackupManager (checked under Spec)                     *)
(***************************************************************************)
Called(op) == call'[1] = op

TrackedUnchanged == \A f \in TrackedFiles : disk'[f] = disk[f]

SnapshotsUnchanged == \A f \in SnapshotFiles : disk'[f] = disk[f]

\* The three snapshot files of a stage-boundary bundle, as the claims list them.
BundleOf(exercise_id) ==
    IF exercise_id = "checkpoint2-start"
    THEN [deployment |-> "deployment_2.yaml",
          python |-> "get_market_data_original.py",
          schedule |-> "schedule_original.yaml"]
    ELSE [deployment |-> "deployment_2.yaml",
          python |-> "get_market_data_optimized.py",
          schedule |-> "schedule_original.yaml"]

BundleFiles(exercise_id) ==
    {BundleOf(exercise_id).deployment, BundleOf(exercise_id).python,
     BundleOf(exercise_id).schedule}

StageBoundaryCall ==
    /\ Called("restore_exercise_state")
    /\ call'[2] \in {"checkpoint2-start", "checkpoint3-start"}

\* C1: restore_exercise_state(checkpoint2-start / checkpoint3-start) is
\* all-or-nothing: when one of the three snapshot files of the bundle is
\* missing, the call returns False and the three tracked files are what they
\* were before the call.
C1_RestoreExerciseAllOrNothing ==
    [][(StageBoundaryCall /\ \E f \in BundleFiles(call'[2]) : ~exists(disk, f))
          => (ret' = "False" /\ TrackedUnchanged)]_vars

\* C2: write-once originals: an original snapshot that exists keeps its
\* content across every BackupManager operation; only reset_original_backup
\* confirmed with 'RESET' may overwrite it.
C2_OriginalsWriteOnce ==
    [][\A f \in OriginalFiles :
          (exists(disk, f) /\ disk'[f] # disk[f])
              => call' = <<"reset_original_backup", "RESET">>]_vars

\* C3: restore_original makes no partial restore: when one of the three
\* original snapshots is missing at the moment the restore is attempted (after
\* the method's own _ensure_original_backup), it returns False and no tracked
\* file has been overwritten.
C3_RestoreOriginalNoPartialRestore ==
    [][(Called("restore_original")
          /\ \E f \in OriginalFiles : ~exists(ensure_original_backup(disk), f))
          => (ret' = "False" /\ TrackedUnchanged)]_vars

\* C4: restore_original succeeds with a boolean true: when the three original
\* snapshots exist, afterwards each tracked file equals its original snapshot
\* and the call returns True.
C4_RestoreOriginalReturnsTrue ==
    [][(Called("restore_original")
          /\ \A f \in OriginalFiles : exists(ensure_original_backup(disk), f))
          => /\ ret' = "True"
             /\ disk'[yaml_file_path] = disk'[original_backup_path]
             /\ disk'[get_market_data_path] = disk'[get_market_data_backup_path]
             /\ disk'[schedule_yaml_path] = disk'[schedule_original_backup_path]]_vars

\* C5 as stated: reset_original_backup writes the original deployment snapshot
\* and returns True only if the confirmation input is 'RESET'; for every other
\* input it is a no-op on the snapshot directory and returns False.
C5_ResetOnlyWithConfirmation ==
    [][Called("reset_original_backup")
          => /\ (ret' = "True" \/ ~SnapshotsUnchanged) => call'[2] = "RESET"
             /\ call'[2] # "RESET" => (SnapshotsUnchanged /\ ret' = "False")]_vars

\* C5 as amended: when an original deployment snapshot exists at the call,
\* reset_original_backup writes it and returns True only if the confirmation
\* input is 'RESET' and for every other input, the empty one included, changes
\* nothing and returns False; when none exists no confirmation is asked, and
\* the snapshot is written from deployment.yaml (returning True) whenever
\* deployment.yaml exists.
C5_ResetConfirmationGuardsExistingOriginal ==
    [][Called("reset_original_backup")
          => IF exists(disk, original_backup_path)
             THEN /\ (ret' = "True" \/ disk' # disk) => call'[2] = "RESET"
                  /\ call'[2] # "RESET" => (disk' = disk /\ ret' = "False")
                  /\ ret' = "True" => disk' = copy2(disk, yaml_file_path, original_backup_path)
             ELSE IF exists(disk, yaml_file_path)
                  THEN /\ ret' = "True"
                       /\ disk' = copy2(disk, yaml_file_path, original_backup_path)
                  ELSE /\ ret' = "False"
                       /\ disk' = disk]_vars

\* A reset answered with the empty input was refused: the original snapshot is
\* still there and still differs from the current deployment.yaml.
C5_Witness ==
    /\ call = <<"reset_original_backup", "">>
    /\ ret = "False"
    /\ exists(disk, yaml_file_path)
    /\ exists(disk, original_backup_path)
    /\ disk[original_backup_path] # disk[yaml_file_path]

\* C6: _ensure_original_backup is idempotent: a construction leaves every
\* original snapshot that already exists as it is, creates a missing one as a
\* copy of its tracked file, touches nothing else, and is a no-op once the
\* three originals exist.
C6_EnsureOriginalIdempotent ==
    [][Called("__init__")
          => /\ \A f \in OriginalFiles : exists(disk, f) => disk'[f] = disk[f]
             /\ ~exists(disk, original_backup_path)
                    => disk'[original_backup_path] = disk[yaml_file_path]
             /\ ~exists(disk, schedule_original_backup_path)
                    => disk'[schedule_original_backup_path] = disk[schedule_yaml_path]
             /\ ~exists(disk, get_market_data_backup_path)
                    => disk'[get_market_data_backup_path] = disk[get_market_data_path]
             /\ \A f \in Files \ OriginalFiles : disk'[f] = disk[f]
             /\ (\A f \in OriginalFiles : exists(disk, f)) => disk' = disk]_vars

\* A construction has just run while every tracked file differs from its
\* original snapshot: the snapshots kept their earlier content.
C6_Witness ==
    /\ call = <<"__init__">>
    /\ \A f \in Files : exists(disk, f)
    /\ disk[original_backup_path] # disk[yaml_file_path]
    /\ disk[schedule_original_backup_path] # disk[schedule_yaml_path]
    /\ disk[get_market_data_backup_path] # disk[get_market_data_path]

\* C7: when every file of the bundle exists, restore_exercise_state returns
\* True and leaves deployment.yaml = deployment_2.yaml, schedule.yaml =
\* schedule_original.yaml and get_market_data.py = get_market_data_original.py
\* (checkpoint2-start) or get_market_data_optimized.py (checkpoint3-start);
\* the snapshot files are unchanged.
C7_RestoreExerciseFixedBundle ==
    [][(StageBoundaryCall /\ \A f \in BundleFiles(call'[2]) : exists(disk, f))
          => /\ ret' = "True"
             /\ disk'[yaml_file_path] = disk[BundleOf(call'[2]).deployment]
             /\ disk'[get_market_data_path] = disk[BundleOf(call'[2]).python]
             /\ disk'[schedule_yaml_path] = disk[BundleOf(call'[2]).schedule]
             /\ SnapshotsUnchanged]_vars

\* checkpoint3-start was restored: get_market_data.py is the optimized
\* reference, which differs from the pristine snapshot.
C7_Witness ==
    /\ call = <<"restore_exercise_state", "checkpoint3-start">>
    /\ ret = "True"
    /\ disk[get_market_data_path] = disk[get_market_data_optimized_backup_path]
    /\ disk[yaml_file_path] = disk[deployment_2_backup_path]
    /\ disk[yaml_file_path] # disk[original_backup_path]
    /\ exists(disk, get_market_data_backup_path)
    /\ disk[get_market_data_path] # disk[get_market_data_backup_path]

(***************************************************************************)
(* Inputs of the progression engine                                        *)
(*                                                                         *)
(* A service name is the sequence of its parts, so that removing the       *)
(* "-service" suffix is computed.  A line of get_market_data.py is the set *)
(* of marker patterns that occur in it and whether its stripped text       *)
(* starts with a comment marker.  A job's start_time "HH:MM" is <<HH, MM>>;*)
(* a job is a record with the keys its entry of schedule.yaml has.         *)
(***************************************************************************)
MaxServices == 2

MaxJobs == 2

FaxService == <<"fax", "-service">>

MarketDataService == <<"market-data", "-service">>

ServiceNames == {FaxService, MarketDataService}

Deployments ==
    {NoFile} \cup {File(s) : s \in UNION {[1..n -> ServiceNames] : n \in 0..MaxServices}}

LoopPattern == "for ticker in tickers:"

SpotPattern == "api_client.get_equity_spot(ticker)"

BulkCallPattern == "api_client.get_bulk_market_data("

BulkTickersPattern == "api_client.get_bulk_market_data(tickers)"

BareBulkPattern == "get_bulk_market_data(tickers)"

LoopLine == [comment |-> FALSE, has |-> {LoopPattern}]

SpotLine == [comment |-> FALSE, has |-> {SpotPattern}]

BulkLine ==
    [comment |-> FALSE, has |-> {BulkCallPattern, BulkTickersPattern, BareBulkPattern}]

BareBulkLine == [comment |-> FALSE, has |-> {BareBulkPattern}]

Commented(line) == [line EXCEPT !.comment = TRUE]

\* get_market_data.py as the workshop can leave it: missing, emptied, the
\* inefficient original, the optimized reference, and mixtures of the two.
ArtifactSamples ==
    {NoFile,
     File(<<>>),
     File(<<LoopLine, SpotLine>>),
     File(<<BulkLine>>),
     File(<<Commented(LoopLine), Commented(SpotLine), BulkLine>>),
     File(<<LoopLine, BulkLine>>),
     File(<<LoopLine, SpotLine, BulkLine>>),
     File(<<LoopLine, SpotLine, Commented(BulkLine)>>),
     File(<<BareBulkLine>>)}

StartTimes == {<<1, 0>>, <<2, 0>>, <<5, 30>>, <<6, 0>>, <<18, 0>>}

DurationHours == {0, 1}

JobShapes == [start_time : StartTimes, duration_hours : DurationHours]

Named(shapes) ==
    [i \in 1..Len(shapes) |->
        [name |-> "job-" \o ToString(i),
         start_time |-> shapes[i].start_time,
         duration_hours |-> shapes[i].duration_hours]]

Schedules ==
    {NoFile} \cup {File(Named(s)) : s \in UNION {[1..n -> JobShapes] : n \in 0..MaxJobs}}

(***************************************************************************)
(* yaml_utils/schedule_utils.py                                            *)
(***************************************************************************)
parse_time_to_minutes(time_str) == time_str[1] * 60 + time_str[2]

get_job_duration_minutes(job) ==
    (IF "duration_hours" \in DOMAIN job THEN job.duration_hours * 60 ELSE 0)
        + (IF "duration_minutes" \in DOMAIN job THEN job.duration_minutes ELSE 0)

\* check_jobs_overlap that only asks whether the first job starts before the
\* second one ends.
check_jobs_overlap_one_sided(job1_start_minutes, job1_duration_minutes, job2_start_minutes, job2_duration_minutes) ==
    job1_start_minutes < job2_start_minutes + job2_duration_minutes

\* check_jobs_overlap with closed intervals: the ends count as occupied.
check_jobs_overlap_closed(job1_start_minutes, job1_duration_minutes, job2_start_minutes, job2_duration_minutes) ==
    LET job1_end == job1_start_minutes + job1_duration_minutes
        job2_end == job2_start_minutes + job2_duration_minutes
    IN  job1_start_minutes <= job2_end /\ job2_start_minutes <= job1_end

check_jobs_overlap(job1_start_minutes, job1_duration_minutes, job2_start_minutes, job2_duration_minutes) ==
    LET job1_end == job1_start_minutes + job1_duration_minutes
        job2_end == job2_start_minutes + job2_duration_minutes
    IN  job1_start_minutes < job2_end /\ job2_start_minutes < job1_end

RECURSIVE conflicts_from(_, _, _)
\* The two nested loops of find_schedule_conflicts, from the pair (i, j) on.
conflicts_from(jobs, i, j) ==
    IF i > Len(jobs) THEN <<>>
    ELSE IF j > Len(jobs) THEN conflicts_from(jobs, i + 1, i + 2)
    ELSE (IF check_jobs_overlap(
                 parse_time_to_minutes(jobs[i].start_time),
                 get_job_duration_minutes(jobs[i]),
                 parse_time_to_minutes(jobs[j].start_time),
                 get_job_duration_minutes(jobs[j]))
          THEN << <<jobs[i].name, jobs[j].name>> >>
          ELSE <<>>)
         \o conflicts_from(jobs, i, j + 1)

\* find_schedule_conflicts whose inner loop starts at the first job itself.
find_schedule_conflicts_from_self(jobs) == conflicts_from(jobs, 1, 1)

find_schedule_conflicts(jobs) == conflicts_from(jobs, 1, 2)

(***************************************************************************)
(* cluster_config.py and services.py: the services the CLI sees            *)
(***************************************************************************)
\* The hardcoded configuration from_yaml falls back to when the file cannot be read.
FallbackServices ==
    << <<"price-discovery", "-service">>, <<"position-management", "-service">>,
       <<"market-data", "-service">>, <<"risk-management", "-service">> >>

\* open(file_path) and f.read() succeed: the file exists and, where the
\* descriptor says so, decodes as text.
opens(file) == file.exists /\ ("decodes" \in DOMAIN file => file.decodes)

\* The entries under the top-level key services:, if the file has that key.
services_section(file) ==
    IF "services_key" \in DOMAIN file /\ ~file.services_key THEN <<>> ELSE file.content

from_yaml(file) == IF ~opens(file) THEN FallbackServices ELSE services_section(file)

keep_service_suffix(name) == name

\* name.replace("-service", "")
remove_service_suffix(name) == SelectSeq(name, LAMBDA part : part # "-service")

\* The keys of ServiceManager.services: ServiceConfig.name of every declared service.
service_manager_services(file) ==
    {remove_service_suffix(from_yaml(file)[i]) : i \in 1..Len(from_yaml(file))}

Fax == <<"fax">>

MarketData == <<"market-data">>

\* "fax" in self.services when the i-th configuration is initialised
fax_in_services(configs, i) ==
    \E j \in 1..i : remove_service_suffix(configs[j]) = Fax

\* The stage tests the construction of a ServiceManager evaluates.
initialize_invoked(deployment_file) ==
    LET configs == from_yaml(deployment_file)
    IN  IF \E i \in 1..Len(configs) :
              /\ remove_service_suffix(configs[i]) = MarketData
              /\ ~fax_in_services(configs, i)
        THEN {"_check_market_data_optimization"}
        ELSE {}

active_patterns(content, patterns) ==
    {p \in patterns : \E i \in 1..Len(content) : p \in content[i].has /\ ~content[i].comment}

\* ServiceManager._check_market_data_optimization
sm_check_market_data_optimization(file) ==
    IF ~file.exists THEN FALSE
    ELSE LET active_inefficient ==
                 Cardinality(active_patterns(file.content, {LoopPattern, SpotPattern}))
             active_optimized ==
                 Cardinality(active_patterns(file.content,
                                             {BulkCallPattern, BulkTickersPattern}))
         IN  active_optimized >= 1 /\ active_inefficient <= 1

(***************************************************************************)
(* cli.py: _analyze_exercise_completion_state                              *)
(***************************************************************************)
count_low_carbon_jobs(jobs) ==
    Cardinality({i \in 1..Len(jobs) :
                    2 <= jobs[i].start_time[1] /\ jobs[i].start_time[1] <= 6})

cli_stage_3_test(schedule_file) ==
    IF ~schedule_file.exists THEN FALSE
    ELSE count_low_carbon_jobs(schedule_file.content) >= Len(schedule_file.content) \div 2

analyze_ungated(deployment_file, artifact_file, schedule_file) ==
    [checkpoint_1_complete |-> <<"fax">> \notin service_manager_services(deployment_file),
     checkpoint_2_complete |-> sm_check_market_data_optimization(artifact_file),
     checkpoint_3_complete |-> cli_stage_3_test(schedule_file)]

\* The stage tests _analyze_exercise_completion_state evaluates after it has
\* constructed its ServiceManager.
analyze_invoked(deployment_file, artifact_file, schedule_file) ==
    LET checkpoint_1 == <<"fax">> \notin service_manager_services(deployment_file)
        checkpoint_2 ==
            IF checkpoint_1 THEN sm_check_market_data_optimization(artifact_file) ELSE FALSE
    IN  (IF checkpoint_1 THEN {"_check_market_data_optimization"} ELSE {})
        \cup (IF checkpoint_2 THEN {"read_yaml_file(schedule.yaml)"} ELSE {})

analyze_exercise_completion_state(deployment_file, artifact_file, schedule_file) ==
    LET fax_service_exists == <<"fax">> \in service_manager_services(deployment_file)
        checkpoint_1 == ~fax_service_exists
        checkpoint_2 ==
            IF checkpoint_1 THEN sm_check_market_data_optimization(artifact_file) ELSE FALSE
        checkpoint_3 == IF checkpoint_2 THEN cli_stage_3_test(schedule_file) ELSE FALSE
    IN  [checkpoint_1_complete |-> checkpoint_1,
         checkpoint_2_complete |-> checkpoint_2,
         checkpoint_3_complete |-> checkpoint_3]

(***************************************************************************)
(* workshop_validation/validate_checkpoint_3.py                            *)
(***************************************************************************)
\* check_market_data_optimization of the checkpoint-3 validator
v3_check_market_data_optimization(file) ==
    IF ~file.exists THEN FALSE
    ELSE \E i \in 1..Len(file.content) :
            /\ ~file.content[i].comment
            /\ file.content[i].has \cap {BulkCallPattern, BareBulkPattern} # {}

test_prerequisites_completed(deployment_file, artifact_file) ==
    /\ deployment_file.exists
    /\ \A i \in 1..Len(deployment_file.content) : deployment_file.content[i] # FaxService
    /\ v3_check_market_data_optimization(artifact_file)

is_low_carbon_period(start_time_str) ==
    2 <= start_time_str[1] /\ start_time_str[1] < 6

test_sustainable_batch_processing(deployment_file, artifact_file, schedule_file) ==
    IF ~test_prerequisites_completed(deployment_file, artifact_file) THEN "False"
    ELSE IF ~schedule_file.exists THEN "False"
    ELSE IF Len(schedule_file.content) = 0 THEN "False"
    ELSE IF find_schedule_conflicts(schedule_file.content) # <<>> THEN "False"
    ELSE IF \E i \in 1..Len(schedule_file.content) :
                ~is_low_carbon_period(schedule_file.content[i].start_time) THEN "False"
    ELSE "True"

(***************************************************************************)
(* SpecProgress: one command on the files as the learner left them         *)
(***************************************************************************)
InitProgress ==
    /\ deployment \in Deployments
    /\ artifact \in ArtifactSamples
    /\ schedule \in Schedules
    /\ state = NothingComplete
    /\ call = <<"start">>
    /\ ret = "None"
    /\ disk = [f \in Files |-> Absent]
    /\ manager = FALSE
    /\ NoServiceManager

\* `software-carbon-intensity`: cmd_software_carbon_intensity analyses the state.
AnalyzeExerciseCompletionState ==
    /\ call = <<"start">>
    /\ state' = analyze_exercise_completion_state(deployment, artifact, schedule)
    /\ invoked' = initialize_invoked(deployment)
                      \cup analyze_invoked(deployment, artifact, schedule)
    /\ call' = <<"software-carbon-intensity">>
    /\ UNCHANGED <<ret, disk, manager, deployment, artifact, schedule, services, alerts, output, original, monitor>>

\* `validate --checkpoint 3`
ValidateCheckpoint3 ==
    /\ call = <<"start">>
    /\ ret' = test_sustainable_batch_processing(deployment, artifact, schedule)
    /\ call' = <<"validate", "3">>
    /\ UNCHANGED <<state, disk, manager, deployment, artifact, schedule, services, alerts, output, invoked, original, monitor>>

NextProgress ==
    \/ AnalyzeExerciseCompletionState
    \/ ValidateCheckpoint3

SpecProgress == InitProgress /\ [][NextProgress]_vars

(***************************************************************************)
(* Claims about the completion vector (checked under SpecProgress)         *)
(***************************************************************************)
Analyzed == call = <<"software-carbon-intensity">>

Validated3 == call = <<"validate", "3">>

FaxDeclared ==
    /\ deployment.exists
    /\ \E i \in 1..Len(deployment.content) : deployment.content[i] = <<"fax", "-service">>

\* The stage-3 completion test as the claim states it: no conflicting pair and
\* every job's start hour h with 2 <= h < 6.
Stage3AsClaimed(jobs) ==
    /\ find_schedule_conflicts(jobs) = <<>>
    /\ \A i \in 1..Len(jobs) : 2 <= jobs[i].start_time[1] /\ jobs[i].start_time[1] < 6

\* C8: whenever fax-service is declared in the deployment descriptor, the
\* computed completion vector is (false, false, false), whatever
\* get_market_data.py and schedule.yaml hold.
C8_FaxDeclaredNothingComplete ==
    (Analyzed /\ FaxDeclared) => state = NothingComplete

\* fax-service is declared next to an optimized artifact and a schedule whose
\* own stage tests would pass, and the analysis has run.
C8_Witness ==
    /\ Analyzed
    /\ FaxDeclared
    /\ sm_check_market_data_optimization(artifact)
    /\ schedule.exists
    /\ Len(schedule.content) = MaxJobs
    /\ Stage3AsClaimed(schedule.content)
    /\ state = NothingComplete

\* C9: the completion vector is a prefix of trues: checkpoint_3_complete
\* implies checkpoint_2_complete, which implies checkpoint_1_complete.
C9_CompletionVectorIsPrefix ==
    Analyzed =>
        /\ state.checkpoint_3_complete => state.checkpoint_2_complete
        /\ state.checkpoint_2_complete => state.checkpoint_1_complete

\* Stage 1 is complete and stage 2 is not, while the schedule alone would pass
\* the stage-3 test: the vector is (T, F, F).
C9_Witness ==
    /\ Analyzed
    /\ state = [checkpoint_1_complete |-> TRUE,
                checkpoint_2_complete |-> FALSE,
                checkpoint_3_complete |-> FALSE]
    /\ cli_stage_3_test(schedule)
    /\ schedule.exists
    /\ Stage3AsClaimed(schedule.content)

\* C10: given stages 1 and 2 complete, stage 3 is reported complete if and
\* only if find_schedule_conflicts(jobs) is empty and every job's start hour h
\* satisfies 2 <= h < 6, in the CLI's completion-state analysis as well as in
\* the checkpoint-3 validator.
C10_Stage3IffNoConflictAndWindow ==
    /\ (Analyzed /\ schedule.exists
            /\ state.checkpoint_1_complete /\ state.checkpoint_2_complete)
          => (state.checkpoint_3_complete <=> Stage3AsClaimed(schedule.content))
    /\ (Validated3 /\ schedule.exists
            /\ test_prerequisites_completed(deployment, artifact))
          => (ret = "True" <=> Stage3AsClaimed(schedule.content))

(***************************************************************************)
(* workshop_validation/validate_checkpoint_2.py                            *)
(***************************************************************************)
\* The number of uncommented lines that hold one of the patterns.
active_lines(content, patterns) ==
    Cardinality({i \in 1..Len(content) :
                    ~content[i].comment /\ content[i].has \cap patterns # {}})

\* check_market_data_optimization of the checkpoint-2 validator: is_optimized
v2_check_market_data_optimization(file) ==
    IF ~file.exists THEN FALSE
    ELSE LET inefficient_active ==
                 active_lines(file.content, {LoopPattern, SpotPattern})
             efficient_active ==
                 active_lines(file.content, {BulkCallPattern, BareBulkPattern})
         IN  inefficient_active = 0 \/ efficient_active > 0

(***************************************************************************)
(* SpecClassify: the two stage-2 classifiers on bounded artifact texts     *)
(***************************************************************************)
MaxLines == 2

PlainLine == [comment |-> FALSE, has |-> {}]

BulkOtherArgumentLine == [comment |-> FALSE, has |-> {BulkCallPattern}]

TextLines ==
    LET Uncommented ==
            {PlainLine, LoopLine, SpotLine, BulkLine, BulkOtherArgumentLine, BareBulkLine}
    IN  Uncommented \cup {Commented(line) : line \in Uncommented}

ArtifactTexts ==
    {NoFile} \cup {File(t) : t \in UNION {[1..n -> TextLines] : n \in 0..MaxLines}}

InitClassify ==
    /\ artifact \in ArtifactTexts
    /\ deployment = NoFile
    /\ schedule = NoFile
    /\ state = NothingComplete
    /\ call = <<"start">>
    /\ ret = "None"
    /\ disk = [f \in Files |-> Absent]
    /\ manager = FALSE
    /\ NoServiceManager

\* validate_checkpoint_2.check_market_data_optimization on the artifact
ValidatorCheckMarketDataOptimization ==
    /\ call = <<"start">>
    /\ ret' = IF v2_check_market_data_optimization(artifact) THEN "True" ELSE "False"
    /\ call' = <<"check_market_data_optimization">>
    /\ UNCHANGED <<state, disk, manager, deployment, artifact, schedule, services, alerts, output, invoked, original, monitor>>

\* ServiceManager._check_market_data_optimization on the artifact
ServiceManagerCheckMarketDataOptimization ==
    /\ call = <<"start">>
    /\ ret' = IF sm_check_market_data_optimization(artifact) THEN "True" ELSE "False"
    /\ call' = <<"_check_market_data_optimization">>
    /\ UNCHANGED <<state, disk, manager, deployment, artifact, schedule, services, alerts, output, invoked, original, monitor>>

NextClassify ==
    \/ ValidatorCheckMarketDataOptimization
    \/ ServiceManagerCheckMarketDataOptimization

SpecClassify == InitClassify /\ [][NextClassify]_vars

(***************************************************************************)
(* Claims about the stage-2 classification (checked under SpecClassify)    *)
(***************************************************************************)
\* The classification as the claim states it, for a classifier's bulk markers.
OptimizedAsClaimed(content, bulk_markers) ==
    \/ \A i \in 1..Len(content) :
          ~content[i].comment => content[i].has \cap {LoopPattern, SpotPattern} = {}
    \/ \E i \in 1..Len(content) :
          ~content[i].comment /\ content[i].has \cap bulk_markers # {}

\* C11: for every artifact text the stage-2 classification is 'optimized' if
\* and only if no inefficient marker occurs on an uncommented line or at least
\* one bulk marker occurs on an uncommented line, commented lines never
\* counting; for the checkpoint-2 validator's check_market_data_optimization
\* and for ServiceManager._check_market_data_optimization alike.
C11_OptimizedIffNoInefficientOrBulk ==
    /\ (call = <<"check_market_data_optimization">> /\ artifact.exists)
          => (ret = "True"
                <=> OptimizedAsClaimed(artifact.content, {BulkCallPattern, BareBulkPattern}))
    /\ (call = <<"_check_market_data_optimization">> /\ artifact.exists)
          => (ret = "True"
                <=> OptimizedAsClaimed(artifact.content, {BulkCallPattern, BulkTickersPattern}))

(***************************************************************************)
(* services.py: ServiceSimulator and ServiceManager                        *)
(*                                                                         *)
(* A CPU reading is a number of quarters of a percent, a response time a   *)
(* number of milliseconds, and a random draw is a choice among a few       *)
(* values of its interval.  Of ServiceMetrics the model keeps the two      *)
(* fields an alert reads: cpu_usage and response_time_p95.  A service is   *)
(* its status, its metrics (<<>> for None) and the _base_metrics of its    *)
(* simulator.                                                              *)
(***************************************************************************)
MaxCpu == 13

\* random.uniform(0.5, 2.5)
FaxCpuBases == {6, 10}

\* random.uniform(-0.5, 0.5)
FaxCpuVariations == {-1, 0, 1}

\* random.uniform(70, 85) and the other bases of the services no alert reads
OtherCpuBases == {300}

\* random.uniform(-10, 10)
OtherCpuVariations == {0}

\* random.uniform(10, 50)
P95Bases == {30}

\* The P95 readings market-data can show: base * (1 + load_factor * 1.5) grows
\* from its base on every update.
P95Readings == {30, 26000}

\* cpu_usage < 3.0
FaxCpuThreshold == 12

\* min(100, ...)
CpuCeiling == 400

PositionManagement == <<"position-management">>

Metrics(cpu_usage, response_time_p95) ==
    [cpu_usage |-> cpu_usage, response_time_p95 |-> response_time_p95]

Max(a, b) == IF a > b THEN a ELSE b

Min(a, b) == IF a < b THEN a ELSE b

\* ServiceSimulator._generate_base_metrics
generate_base_metrics(name) ==
    {Metrics(cpu_base, p95) :
        cpu_base \in (IF name = Fax THEN FaxCpuBases ELSE OtherCpuBases),
        p95 \in P95Bases}

cpu_variation(name) == IF name = Fax THEN FaxCpuVariations ELSE OtherCpuVariations

\* ServiceSimulator.update_metrics: the metrics it can return; a running
\* simulator also stores them as its new _base_metrics.
update_metrics(name, status, base) ==
    IF status # "running" THEN {base}
    ELSE {Metrics(Max(0, Min(CpuCeiling, base.cpu_usage + variation)), p95) :
            variation \in cpu_variation(name),
            p95 \in (IF name = MarketData
                     THEN {r \in P95Readings : r >= base.response_time_p95}
                     ELSE {base.response_time_p95})}

\* service.metrics = simulator.update_metrics()
refresh_metrics(name, service) ==
    {[service EXCEPT !.metrics = <<m>>,
                     !.base = IF service.status = "running" THEN m ELSE @] :
        m \in update_metrics(name, service.status, service.base)}

\* random.randint(1000, 9999)
Pids == {1000}

\* The Service and the ServiceSimulator _initialize_from_deployment creates for
\* one configuration, after _initialize_workshop_metrics.
initialize_workshop_metrics(name, fax_service_exists, artifact_file) ==
    LET created == {[status |-> "running", metrics |-> <<>>, base |-> b,
                     start_time |-> <<"uptime">>, pid |-> <<p>>] :
                        b \in generate_base_metrics(name), p \in Pids}
    IN  IF name = Fax
        THEN {[s EXCEPT !.metrics = <<Metrics(cpu, 0)>>] :
                 s \in created, cpu \in FaxCpuBases}
        ELSE IF name = PositionManagement
        THEN {[s EXCEPT !.metrics = <<Metrics(48, 8)>>] : s \in created}
        ELSE IF name = MarketData /\ ~fax_service_exists
        THEN LET is_optimized == sm_check_market_data_optimization(artifact_file)
                 p95_time == IF is_optimized THEN 130 ELSE 26000
             IN  {[s EXCEPT !.metrics = <<Metrics(100, p95_time)>>] : s \in created}
        ELSE UNION {refresh_metrics(name, s) : s \in created}

\* The functions over a set of names that pick one of each name's options.
Choices(names, options) ==
    {f \in [names -> UNION {options[n] : n \in names}] : \A n \in names : f[n] \in options[n]}

\* ServiceManager._initialize_from_deployment: the possible self.services
initialize_from_deployment(deployment_file, artifact_file) ==
    LET configs == from_yaml(deployment_file)
        names == {remove_service_suffix(configs[i]) : i \in 1..Len(configs)}
        last(n) == CHOOSE i \in 1..Len(configs) :
                      /\ remove_service_suffix(configs[i]) = n
                      /\ \A j \in (i + 1)..Len(configs) : remove_service_suffix(configs[j]) # n
        options(n) ==
            initialize_workshop_metrics(n, fax_in_services(configs, last(n)), artifact_file)
    IN  Choices(names, [n \in names |-> options(n)])

\* update_all_metrics that asks every simulator, whatever the service's status.
update_all_metrics_unguarded(svcs) ==
    Choices(DOMAIN svcs, [n \in DOMAIN svcs |-> refresh_metrics(n, svcs[n])])

\* ServiceManager.update_all_metrics: the possible self.services afterwards
update_all_metrics(svcs) ==
    LET options(n) ==
            IF svcs[n].status = "running" THEN refresh_metrics(n, svcs[n]) ELSE {svcs[n]}
    IN  Choices(DOMAIN svcs, [n \in DOMAIN svcs |-> options(n)])

\* ServiceManager.stop_service
stop_service(svcs, name) ==
    IF name \notin DOMAIN svcs THEN [services |-> svcs, ret |-> "False"]
    ELSE IF svcs[name].status = "stopped" THEN [services |-> svcs, ret |-> "True"]
    ELSE [services |-> [svcs EXCEPT ![name].status = "stopped",
                                    ![name].start_time = <<>>,
                                    ![name].pid = <<>>,
                                    ![name].metrics = <<>>],
          ret |-> "True"]

\* ServiceManager.start_service: the possible outcomes
start_service(svcs, name) ==
    IF name \notin DOMAIN svcs THEN {[services |-> svcs, ret |-> "False"]}
    ELSE IF svcs[name].status = "running" THEN {[services |-> svcs, ret |-> "True"]}
    ELSE {[services |-> [svcs EXCEPT ![name] = s], ret |-> "True"] :
            s \in UNION {refresh_metrics(name, [status |-> "running", metrics |-> <<>>, base |-> b,
                                                start_time |-> <<"now">>, pid |-> <<p>>]) :
                            b \in generate_base_metrics(name), p \in Pids}}

\* ServiceManager.get_system_overview: the four counts of the SystemOverview
get_system_overview(svcs) ==
    [total_services |-> Cardinality(DOMAIN svcs),
     running_services |-> Cardinality({n \in DOMAIN svcs : svcs[n].status = "running"}),
     stopped_services |-> Cardinality({n \in DOMAIN svcs : svcs[n].status = "stopped"}),
     error_services |-> Cardinality({n \in DOMAIN svcs : svcs[n].status = "error"})]

\* An alert message is the sequence of the fragments its text is made of.
LowUtilizationMessage ==
    <<"Low utilization on large machine - investigate service necessity",
      "Run: python3 workshop.py historical fax-service">>

PerformanceIssuesMessage ==
    <<"Service showing performance issues - investigate code inefficiencies in the function getMarketData(api_client) in the file ",
      "get_market_data.py">>

\* threshold=1000.0
ResponseTimeThreshold == 1000

FaxAlert(fax_service) ==
    [service_name |-> "fax",
     level |-> "warning",
     message |-> LowUtilizationMessage,
     metric_name |-> "cpu_usage",
     current_value |-> fax_service.metrics[1].cpu_usage,
     threshold |-> FaxCpuThreshold]

MarketDataAlert(market_data_service) ==
    [service_name |-> "market-data",
     level |-> "warning",
     message |-> PerformanceIssuesMessage,
     metric_name |-> "response_time",
     current_value |-> market_data_service.metrics[1].response_time_p95,
     threshold |-> ResponseTimeThreshold]

\* The stage tests _generate_workshop_alerts evaluates.
generate_workshop_alerts_invoked(svcs) == {"_check_market_data_optimization"}

\* ServiceManager._generate_workshop_alerts on list(self.services.values())
generate_workshop_alerts(svcs, artifact_file) ==
    LET fax_present == Fax \in DOMAIN svcs
        market_data_optimized == sm_check_market_data_optimization(artifact_file)
    IN  IF fax_present
        THEN IF svcs[Fax].metrics # <<>> /\ svcs[Fax].metrics[1].cpu_usage < FaxCpuThreshold
             THEN <<FaxAlert(svcs[Fax])>>
             ELSE <<>>
        ELSE IF ~fax_present /\ ~market_data_optimized
        THEN IF MarketData \in DOMAIN svcs /\ svcs[MarketData].metrics # <<>>
             THEN <<MarketDataAlert(svcs[MarketData])>>
             ELSE <<>>
        ELSE <<>>

BulkApiWord == "bulk_api"

\* "batch" in content.lower()
BatchWord == "batch"

BatchCommentLine == [comment |-> TRUE, has |-> {BatchWord}]

\* Monitor._display_workshop_recommendations: the blocks it prints
display_workshop_recommendations(svcs, overview_alerts, artifact_file) ==
    LET fax_service_exists == \E n \in DOMAIN svcs : n = FaxService
        checkpoint_2_completed ==
            /\ artifact_file.exists
            /\ \E i \in 1..Len(artifact_file.content) :
                  artifact_file.content[i].has \cap {BulkApiWord, BatchWord} # {}
        market_data_service == {n \in DOMAIN svcs : n = MarketDataService}
    IN  IF overview_alerts = <<>> THEN {}
        ELSE {<<"WORKSHOP RECOMMENDATIONS", overview_alerts[i].service_name>> :
                 i \in 1..Len(overview_alerts)}
             \cup (IF /\ ~fax_service_exists /\ ~checkpoint_2_completed
                      /\ \E n \in market_data_service :
                            /\ svcs[n].metrics # <<>>
                            /\ svcs[n].metrics[1].response_time_p95 > ResponseTimeThreshold
                   THEN {<<"PERFORMANCE ALERT">>} ELSE {})
             \cup (IF ~fax_service_exists /\ checkpoint_2_completed
                   THEN {<<"SUSTAINABILITY ALERT">>} ELSE {})

(***************************************************************************)
(* SpecServices: a ServiceManager and its Monitor over the files as the    *)
(* learner left them                                                       *)
(***************************************************************************)
DashboardArtifacts ==
    {NoFile,
     File(<<Commented(LoopLine), Commented(SpotLine)>>),
     File(<<LoopLine, SpotLine>>),
     File(<<BulkLine>>),
     File(<<BatchCommentLine, LoopLine, SpotLine>>),
     File(<<BatchCommentLine, BulkLine>>)}

DashboardSchedules ==
    {File(Named(<<[start_time |-> <<18, 0>>, duration_hours |-> 1],
                  [start_time |-> <<18, 0>>, duration_hours |-> 1]>>)),
     File(Named(<<[start_time |-> <<2, 0>>, duration_hours |-> 1],
                  [start_time |-> <<5, 30>>, duration_hours |-> 1]>>))}

ServiceArguments == {Fax, MarketData}

\* The bound on the fax readings explored.
WithinBounds(svcs) ==
    Fax \in DOMAIN svcs => svcs[Fax].base.cpu_usage <= MaxCpu

\* The state after ServiceManager(): services created running, with metrics.
InitServices ==
    /\ monitor = NoMonitor
    /\ deployment \in Deployments
    /\ artifact \in DashboardArtifacts
    /\ schedule \in DashboardSchedules
    /\ services \in initialize_from_deployment(deployment, artifact)
    /\ invoked = initialize_invoked(deployment)
    /\ alerts = <<>>
    /\ output = {}
    /\ call = <<"ServiceManager">>
    /\ ret = "None"
    /\ state = NothingComplete
    /\ disk = [f \in Files |-> Absent]
    /\ manager = FALSE
    /\ original = NoFile

UpdateAllMetrics ==
    /\ \E svcs \in update_all_metrics(services) :
          /\ WithinBounds(svcs)
          /\ services' = svcs
    /\ call' = <<"update_all_metrics">>
    /\ ret' = "None"
    /\ invoked' = {}
    /\ alerts' = <<>>
    /\ output' = {}
    /\ UNCHANGED <<state, disk, manager, deployment, artifact, schedule, original, monitor>>

StopService ==
    /\ \E name \in ServiceArguments :
          LET r == stop_service(services, name)
          IN  /\ services' = r.services
              /\ ret' = r.ret
              /\ call' = <<"stop_service", name>>
    /\ invoked' = {}
    /\ alerts' = <<>>
    /\ output' = {}
    /\ UNCHANGED <<state, disk, manager, deployment, artifact, schedule, original, monitor>>

StartService ==
    /\ \E name \in ServiceArguments :
          \E r \in start_service(services, name) :
              /\ WithinBounds(r.services)
              /\ services' = r.services
              /\ ret' = r.ret
              /\ call' = <<"start_service", name>>
    /\ invoked' = {}
    /\ alerts' = <<>>
    /\ output' = {}
    /\ UNCHANGED <<state, disk, manager, deployment, artifact, schedule, original, monitor>>

\* ServiceManager.get_system_overview: the alerts of the current services
GetSystemOverview ==
    /\ alerts' = generate_workshop_alerts(services, artifact)
    /\ invoked' = generate_workshop_alerts_invoked(services)
    /\ call' = <<"get_system_overview">>
    /\ ret' = get_system_overview(services)
    /\ output' = {}
    /\ UNCHANGED <<services, state, disk, manager, deployment, artifact, schedule, original, monitor>>

\* Monitor.display_workshop_dashboard(None): update_all_metrics, the overview,
\* then the recommendations.
DisplayWorkshopDashboard ==
    /\ \E svcs \in update_all_metrics(services) :
          /\ WithinBounds(svcs)
          /\ services' = svcs
          /\ alerts' = generate_workshop_alerts(svcs, artifact)
          /\ output' = display_workshop_recommendations(
                           svcs, generate_workshop_alerts(svcs, artifact), artifact)
          /\ invoked' = generate_workshop_alerts_invoked(svcs)
    /\ call' = <<"display_workshop_dashboard">>
    /\ ret' = "None"
    /\ UNCHANGED <<state, disk, manager, deployment, artifact, schedule, original, monitor>>

NextServices ==
    \/ UpdateAllMetrics
    \/ StopService
    \/ StartService
    \/ GetSystemOverview
    \/ DisplayWorkshopDashboard

SpecServices == InitServices /\ [][NextServices]_vars

(***************************************************************************)
(* Claims about the alerts and the dashboard (checked under SpecServices)  *)
(***************************************************************************)
Overviewed == call \in {<<"get_system_overview">>, <<"display_workshop_dashboard">>}

Displayed == call = <<"display_workshop_dashboard">>

\* The workshop categories among the blocks of a dashboard output.
Categories(out) ==
    (IF <<"WORKSHOP RECOMMENDATIONS", "fax">> \in out THEN {"fax low utilization"} ELSE {})
    \cup (IF <<"WORKSHOP RECOMMENDATIONS", "market-data">> \in out
             \/ <<"PERFORMANCE ALERT">> \in out
          THEN {"market-data performance"} ELSE {})
    \cup (IF <<"SUSTAINABILITY ALERT">> \in out THEN {"sustainability"} ELSE {})

\* Stage 1 and stage 2 as the progression engine defines them.
Stage1 == Fax \notin DOMAIN services

Stage2 ==
    /\ artifact.exists
    /\ OptimizedAsClaimed(artifact.content, {BulkCallPattern, BulkTickersPattern})

\* C12: single active category: _generate_workshop_alerts returns at most one
\* alert, never a market-data alert while fax is present, and the status
\* dashboard never shows two workshop categories (fax low-utilization alert,
\* market-data performance alert, sustainability notice) in one output.
C12_SingleActiveCategory ==
    /\ Len(alerts) <= 1
    /\ ~Stage1 => \A i \in 1..Len(alerts) : alerts[i].service_name # "market-data"
    /\ Cardinality(Categories(output)) <= 1

\* C13: when stages 1 and 2 are complete and stage 3 is not, the status
\* dashboard displays the sustainability notice; when all three stages are
\* complete it displays no workshop alert or notice.
C13_SustainabilityNoticeAfterStage2 ==
    (Displayed /\ Stage1 /\ Stage2 /\ schedule.exists)
        => IF Stage3AsClaimed(schedule.content)
           THEN output = {}
           ELSE <<"SUSTAINABILITY ALERT">> \in output

\* C14: whenever the fax service is among the services, after any number of
\* metric updates and stop/start operations, the derived alert list is exactly
\* one alert of level WARNING with service_name 'fax', the low-utilization
\* message and current_value equal to fax's current CPU reading.
C14_FaxAlertWheneverFaxPresent ==
    (Overviewed /\ ~Stage1)
        => /\ Len(alerts) = 1
           /\ alerts[1].service_name = "fax"
           /\ alerts[1].level = "warning"
           /\ alerts[1].message = LowUtilizationMessage
           /\ services[Fax].metrics # <<>>
           /\ alerts[1].current_value = services[Fax].metrics[1].cpu_usage

\* C15: whenever stage 1 is true and stage 2 is false, the derived alert list
\* is exactly one alert of level WARNING with service_name 'market-data',
\* referencing get_market_data.py, with current_value equal to market-data's
\* current P95 response time; and when stage 2 is true no market-data alert is
\* derived.
C15_MarketDataAlertIffStage2Open ==
    /\ (Overviewed /\ Stage1 /\ ~Stage2)
          => /\ Len(alerts) = 1
             /\ alerts[1].service_name = "market-data"
             /\ alerts[1].level = "warning"
             /\ \E k \in 1..Len(alerts[1].message) : alerts[1].message[k] = "get_market_data.py"
             /\ MarketData \in DOMAIN services
             /\ services[MarketData].metrics # <<>>
             /\ alerts[1].current_value = services[MarketData].metrics[1].response_time_p95
    /\ (Overviewed /\ Stage2)
          => \A i \in 1..Len(alerts) : alerts[i].service_name # "market-data"

\* C16: the stage-2 test (reading and classifying get_market_data.py) is never
\* invoked in an execution where stage 1 is false, and the stage-3 test
\* (reading schedule.yaml) is never invoked where stage 2 is false; in alert
\* derivation as well as in completion-state analysis.
C16_LaterStageTestsGated ==
    /\ (Overviewed /\ ~Stage1) => "_check_market_data_optimization" \notin invoked
    /\ (Overviewed /\ ~Stage2) => "read_yaml_file(schedule.yaml)" \notin invoked
    /\ (Analyzed /\ FaxDeclared) => "_check_market_data_optimization" \notin invoked
    /\ (Analyzed /\ ~sm_check_market_data_optimization(artifact))
          => "read_yaml_file(schedule.yaml)" \notin invoked

(***************************************************************************)
(* yaml_utils/yaml_validator.py and the deployment loaders of the          *)
(* validators                                                              *)
(*                                                                         *)
(* Here a deployment.yaml is the sequence of its service entries as text:  *)
(* the name, the version, and whether the entry lists its machines under a *)
(* block-style `machines:` key (a line that stripped is "machines:").      *)
(***************************************************************************)
Versions == {"2.1.3", "2.5.0"}

DeploymentEntries == [name : ServiceNames, version : Versions, block_machines : BOOLEAN]

DeploymentTexts ==
    {NoFile} \cup {File(t) : t \in UNION {[1..n -> DeploymentEntries] : n \in 0..MaxServices}}

names_of(entries) == [i \in 1..Len(entries) |-> entries[i].name]

\* validate_checkpoint_2.load_deployment_yaml: any line that stripped is
\* "machines:" ends the services section, so the entries after a block-style
\* machines key are not read.
v2_load_deployment_yaml(file) ==
    IF ~file.exists THEN NoFile
    ELSE LET blocks == {i \in 1..Len(file.content) : file.content[i].block_machines}
             read == IF blocks = {} THEN Len(file.content)
                     ELSE CHOOSE i \in blocks : \A j \in blocks : i <= j
         IN  File(names_of(SubSeq(file.content, 1, read)))

\* validate_checkpoint_3.load_deployment_yaml: only an unindented "machines:"
\* ends the services section.
v3_load_deployment_yaml(file) ==
    IF ~file.exists THEN NoFile ELSE File(names_of(file.content))

\* validate_checkpoint_2.test_prerequisites_completed
v2_test_prerequisites_completed(deployment_file) ==
    LET loaded == v2_load_deployment_yaml(deployment_file)
    IN  /\ loaded.exists
        /\ \A i \in 1..Len(loaded.content) : loaded.content[i] # FaxService

\* validate_checkpoint_2.test_market_data_optimization
test_market_data_optimization(deployment_file, artifact_file) ==
    IF ~v2_test_prerequisites_completed(deployment_file) THEN "False"
    ELSE IF ~v2_check_market_data_optimization(artifact_file) THEN "False"
    ELSE "True"

\* YAMLValidator.parse_services_from_yaml
parse_services_from_yaml(file) ==
    IF ~opens(file) THEN <<>>
    ELSE [i \in 1..Len(services_section(file)) |->
             [name |-> services_section(file)[i].name,
              version |-> services_section(file)[i].version]]

\* BackupManager._ensure_original_backup, for deployment_original.yaml
ensure_original_deployment(original_file, deployment_file) ==
    IF ~original_file.exists /\ deployment_file.exists THEN deployment_file ELSE original_file

\* YAMLValidator.validate_service_removal, after its _ensure_original_backup
validate_service_removal(original_file, deployment_file, target_service) ==
    IF ~original_file.exists THEN "False"
    ELSE IF ~deployment_file.exists THEN "False"
    ELSE LET original_services == parse_services_from_yaml(original_file)
             current_services == parse_services_from_yaml(deployment_file)
             original_names ==
                 {original_services[i].name : i \in 1..Len(original_services)}
             current_names == {current_services[i].name : i \in 1..Len(current_services)}
             removed_services == original_names \ current_names
             added_services == current_names \ original_names
             original_service(service_name) ==
                 original_services[CHOOSE i \in 1..Len(original_services) :
                     /\ original_services[i].name = service_name
                     /\ \A j \in 1..(i - 1) : original_services[j].name # service_name]
         IN  IF target_service \notin original_names THEN "False"
             ELSE IF Cardinality(removed_services) = 0 THEN "False"
             ELSE IF Cardinality(removed_services) > 1 THEN "False"
             ELSE IF removed_services # {target_service} THEN "False"
             ELSE IF Cardinality(added_services) > 0 THEN "False"
             ELSE IF \E i \in 1..Len(current_services) :
                        original_service(current_services[i].name).version
                            # current_services[i].version
                  THEN "False"
             ELSE "True"

\* YAMLValidator.validate_exercise_completion
validate_exercise_completion(checkpoint, original_file, deployment_file, artifact_file, schedule_file) ==
    IF checkpoint = "1"
    THEN validate_service_removal(original_file, deployment_file, FaxService)
    ELSE IF checkpoint = "2"
    THEN test_market_data_optimization(deployment_file, artifact_file)
    ELSE test_sustainable_batch_processing(
             v3_load_deployment_yaml(deployment_file), artifact_file, schedule_file)

(***************************************************************************)
(* SpecValidate: `validate --checkpoint N` on the files as the learner     *)
(* left them                                                               *)
(***************************************************************************)
OriginalSnapshots ==
    {NoFile,
     File(<<[name |-> MarketDataService, version |-> "2.5.0", block_machines |-> FALSE],
            [name |-> FaxService, version |-> "2.1.3", block_machines |-> FALSE]>>),
     File(<<[name |-> MarketDataService, version |-> "2.5.0", block_machines |-> FALSE]>>)}

ValidateArtifacts ==
    {File(<<>>), File(<<LoopLine, SpotLine>>), File(<<BulkLine>>), File(<<LoopLine, BareBulkLine>>)}

InitValidate ==
    /\ monitor = NoMonitor
    /\ deployment \in DeploymentTexts
    /\ original \in OriginalSnapshots
    /\ artifact \in ValidateArtifacts
    /\ schedule \in DashboardSchedules
    /\ call = <<"start">>
    /\ ret = "None"
    /\ state = NothingComplete
    /\ disk = [f \in Files |-> Absent]
    /\ manager = FALSE
    /\ services = <<>>
    /\ alerts = <<>>
    /\ output = {}
    /\ invoked = {}

\* cmd_validate: YAMLValidator() constructs a BackupManager, which creates the
\* missing original snapshot, then the checkpoint's validation runs.
CmdValidate ==
    /\ \E checkpoint \in {"1", "2", "3"} :
          LET ensured == ensure_original_deployment(original, deployment)
          IN  /\ original' = ensured
              /\ ret' = validate_exercise_completion(
                            checkpoint, ensured, deployment, artifact, schedule)
              /\ call' = <<"validate", checkpoint>>
    /\ UNCHANGED <<state, disk, manager, deployment, artifact, schedule, services, alerts, output, invoked, monitor>>

NextValidate == CmdValidate

SpecValidate == InitValidate /\ [][NextValidate]_vars

(***************************************************************************)
(* Claims about the validators (checked under SpecValidate)                *)
(***************************************************************************)
\* C17: whenever `validate --checkpoint 2` passes on the current files,
\* `validate --checkpoint 1` also passes on the same files, and whenever
\* `validate --checkpoint 3` passes, `validate --checkpoint 2` passes.
C17_LaterValidationImpliesEarlier ==
    /\ (call = <<"validate", "2">> /\ ret = "True")
          => validate_exercise_completion("1", original, deployment, artifact, schedule) = "True"
    /\ (call = <<"validate", "3">> /\ ret = "True")
          => validate_exercise_completion("2", original, deployment, artifact, schedule) = "True"

(***************************************************************************)
(* SpecSchedule: the conflict detector on bounded job lists                *)
(*                                                                         *)
(* A job has the keys its entry of schedule.yaml has: duration_hours and   *)
(* duration_minutes may each be missing.                                   *)
(***************************************************************************)
MaxScheduleJobs == 3

ScheduleStartTimes == {<<2, 0>>, <<3, 0>>, <<3, 30>>}

\* The duration keys of a job entry: none, explicit zeros, 1h, 2h.
DurationKeys ==
    {<<>>,
     [duration_hours |-> 0, duration_minutes |-> 0],
     [duration_hours |-> 1],
     [duration_hours |-> 2]}

\* The job entry number i with a start time and duration keys.
Job(i, start_time, keys) ==
    [k \in {"name", "start_time"} \cup DOMAIN keys |->
        IF k = "name" THEN "job-" \o ToString(i)
        ELSE IF k = "start_time" THEN start_time
        ELSE keys[k]]

JobLists ==
    UNION {{[i \in 1..n |-> Job(i, starts[i], keys[i])] :
               starts \in [1..n -> ScheduleStartTimes], keys \in [1..n -> DurationKeys]} :
           n \in 0..MaxScheduleJobs}

InitSchedule ==
    /\ schedule \in {File(jobs) : jobs \in JobLists}
    /\ call = <<"start">>
    /\ ret = "None"
    /\ deployment = NoFile
    /\ artifact = NoFile
    /\ state = NothingComplete
    /\ disk = [f \in Files |-> Absent]
    /\ manager = FALSE
    /\ NoServiceManager

FindScheduleConflicts ==
    /\ call = <<"start">>
    /\ ret' = find_schedule_conflicts(schedule.content)
    /\ call' = <<"find_schedule_conflicts">>
    /\ UNCHANGED <<state, disk, manager, deployment, artifact, schedule, services, alerts, output, invoked, original, monitor>>

\* check_jobs_overlap on two jobs of the list, as find_schedule_conflicts and
\* the tests call it.
CheckJobsOverlap ==
    /\ call = <<"start">>
    /\ \E i \in 1..Len(schedule.content), j \in 1..Len(schedule.content) :
          /\ i # j
          /\ ret' = IF check_jobs_overlap(
                           parse_time_to_minutes(schedule.content[i].start_time),
                           get_job_duration_minutes(schedule.content[i]),
                           parse_time_to_minutes(schedule.content[j].start_time),
                           get_job_duration_minutes(schedule.content[j]))
                    THEN "True" ELSE "False"
          /\ call' = <<"check_jobs_overlap", i, j>>
    /\ UNCHANGED <<state, disk, manager, deployment, artifact, schedule, services, alerts, output, invoked, original, monitor>>

NextSchedule ==
    \/ FindScheduleConflicts
    \/ CheckJobsOverlap

SpecSchedule == InitSchedule /\ [][NextSchedule]_vars

(***************************************************************************)
(* Claims about the conflict detector                                      *)
(***************************************************************************)
OverlapChecked == call[1] = "check_jobs_overlap"

ConflictsFound == call[1] = "find_schedule_conflicts"

\* Start and duration, in minutes, of job number i of schedule.yaml.
StartOf(i) == schedule.content[i].start_time[1] * 60 + schedule.content[i].start_time[2]

DurationOf(i) ==
    LET job == schedule.content[i]
        hours == IF "duration_hours" \in DOMAIN job THEN job.duration_hours ELSE 0
        minutes == IF "duration_minutes" \in DOMAIN job THEN job.duration_minutes ELSE 0
    IN  hours * 60 + minutes

EndOf(i) == StartOf(i) + DurationOf(i)

\* The minutes job number i occupies, as a half-open window.
MinutesOf(i) == {t \in StartOf(i)..(EndOf(i) - 1) : TRUE}

\* C18: check_jobs_overlap answers True exactly when start1 < start2 +
\* duration2 and start2 < start1 + duration1; a job that ends exactly when
\* the other starts does not overlap it; a job contained in the other, or
\* sharing its start, overlaps it when both durations are positive, and two
\* jobs of positive duration overlap exactly when they share a minute.
C18_HalfOpenOverlap ==
    OverlapChecked =>
        LET i == call[2]
            j == call[3]
            overlap == ret = "True"
        IN  /\ ret \in {"True", "False"}
            /\ overlap <=> (StartOf(i) < EndOf(j) /\ StartOf(j) < EndOf(i))
            /\ (EndOf(i) = StartOf(j) \/ EndOf(j) = StartOf(i)) => ~overlap
            /\ (DurationOf(i) > 0 /\ DurationOf(j) > 0) =>
                  /\ (StartOf(i) <= StartOf(j) /\ EndOf(j) <= EndOf(i)) => overlap
                  /\ StartOf(i) = StartOf(j) => overlap
                  /\ overlap <=> (MinutesOf(i) \cap MinutesOf(j) # {})

\* A job of positive duration that ends exactly when the next one starts was
\* compared with it.
C18_Witness ==
    /\ OverlapChecked
    /\ DurationOf(call[2]) > 0
    /\ DurationOf(call[3]) > 0
    /\ EndOf(call[2]) = StartOf(call[3])
    /\ ret = "False"

\* A job contained in another of positive duration was compared with it.
C18_WitnessContained ==
    /\ OverlapChecked
    /\ DurationOf(call[3]) > 0
    /\ StartOf(call[2]) < StartOf(call[3])
    /\ EndOf(call[3]) < EndOf(call[2])
    /\ ret = "True"

NameOf(i) == schedule.content[i].name

Overlapping(i, j) == StartOf(i) < EndOf(j) /\ StartOf(j) < EndOf(i)

\* The pairs of positions i < j of schedule.yaml whose jobs overlap.
OverlappingPairs ==
    {p \in (1..Len(schedule.content)) \X (1..Len(schedule.content)) :
        p[1] < p[2] /\ Overlapping(p[1], p[2])}

\* The positions in schedule.yaml of the two jobs a returned pair names.
PositionsOf(pair) ==
    <<CHOOSE i \in 1..Len(schedule.content) : NameOf(i) = pair[1],
      CHOOSE j \in 1..Len(schedule.content) : NameOf(j) = pair[2]>>

\* C19: on a job list with unique names find_schedule_conflicts returns
\* exactly the overlapping pairs (jobs[i].name, jobs[j].name) with i < j, each
\* once, ordered by i and then j; no pair comes in both orders, none is (A, A),
\* zero or one job give the empty list, and n mutually overlapping jobs give
\* n(n-1)/2 pairs.
C19_ConflictsAreTheOverlappingPairs ==
    ConflictsFound =>
        LET n == Len(schedule.content)
        IN  /\ \A k \in 1..Len(ret) :
                  \E p \in OverlappingPairs : ret[k] = <<NameOf(p[1]), NameOf(p[2])>>
            /\ \A p \in OverlappingPairs :
                  \E k \in 1..Len(ret) : ret[k] = <<NameOf(p[1]), NameOf(p[2])>>
            /\ Len(ret) = Cardinality(OverlappingPairs)
            /\ \A k \in 1..Len(ret), l \in 1..Len(ret) :
                  k < l =>
                      \/ PositionsOf(ret[k])[1] < PositionsOf(ret[l])[1]
                      \/ /\ PositionsOf(ret[k])[1] = PositionsOf(ret[l])[1]
                         /\ PositionsOf(ret[k])[2] < PositionsOf(ret[l])[2]
            /\ \A k \in 1..Len(ret) : ret[k][1] # ret[k][2]
            /\ \A k \in 1..Len(ret), l \in 1..Len(ret) : ret[k] # <<ret[l][2], ret[l][1]>>
            /\ n <= 1 => ret = <<>>
            /\ (\A i \in 1..n, j \in 1..n : i < j => Overlapping(i, j)) =>
                  2 * Len(ret) = n * (n - 1)

\* Three jobs that overlap one another were searched: three pairs, by i then j.
C19_Witness ==
    /\ ConflictsFound
    /\ Len(schedule.content) = 3
    /\ \A i \in 1..3, j \in 1..3 : i < j => Overlapping(i, j)
    /\ ret = << <<"job-1", "job-2">>, <<"job-1", "job-3">>, <<"job-2", "job-3">> >>

\* Three jobs of which only the first and the last overlap were searched.
C19_WitnessOnePair ==
    /\ ConflictsFound
    /\ Len(schedule.content) = 3
    /\ ret = << <<"job-1", "job-3">> >>

\* C20: a job whose duration is 0 (duration_hours and duration_minutes
\* absent or zero) is in no pair find_schedule_conflicts returns.
C20_ZeroDurationJobNeverInConflict ==
    ConflictsFound =>
        \A i \in 1..Len(schedule.content) :
            DurationOf(i) = 0 =>
                \A k \in 1..Len(ret) : NameOf(i) # ret[k][1] /\ NameOf(i) # ret[k][2]

\* The unordered name pairs of a list of returned pairs.
UnorderedPairs(pairs) == {{pairs[k][1], pairs[k][2]} : k \in 1..Len(pairs)}

\* The orders in which the jobs of schedule.yaml can be handed over.
Reorderings ==
    {[k \in 1..Len(schedule.content) |-> schedule.content[perm[k]]] :
        perm \in Permutations(1..Len(schedule.content))}

\* C21: whatever the order in which the uniquely named jobs are handed to
\* find_schedule_conflicts, the set of unordered name pairs it returns is the
\* one it returns for the order of schedule.yaml.
C21_ConflictsSymmetricInInputOrder ==
    ConflictsFound =>
        \A jobs \in Reorderings :
            UnorderedPairs(find_schedule_conflicts(jobs)) = UnorderedPairs(ret)

\* Three jobs with two conflicts were searched, and another order of the
\* same jobs returns the pairs differently (other order, other orientation).
C21_Witness ==
    /\ ConflictsFound
    /\ Len(schedule.content) = 3
    /\ Len(ret) = 2
    /\ \E jobs \in Reorderings :
          /\ find_schedule_conflicts(jobs) # ret
          /\ \E k \in 1..Len(ret) : find_schedule_conflicts(jobs)[1] = <<ret[k][2], ret[k][1]>>

(***************************************************************************)
(* SpecReads: one ServiceManager instance kept across a learner's edits    *)
(*                                                                         *)
(* `services` is what the instance built from deployment.yaml when it was  *)
(* constructed (DeploymentLoader._config and ServiceManager.services);     *)
(* `deployment` is the file as it is on disk now.                          *)
(***************************************************************************)
ReadArtifacts == {File(<<LoopLine, SpotLine>>), File(<<BulkLine>>)}

InitReads ==
    /\ monitor = NoMonitor
    /\ deployment \in Deployments
    /\ artifact \in ReadArtifacts
    /\ schedule = NoFile
    /\ services \in initialize_from_deployment(deployment, artifact)
    /\ invoked = initialize_invoked(deployment)
    /\ alerts = <<>>
    /\ output = {}
    /\ call = <<"ServiceManager">>
    /\ ret = "None"
    /\ state = NothingComplete
    /\ disk = [f \in Files |-> Absent]
    /\ manager = FALSE
    /\ original = NoFile

\* The learner rewrites deployment.yaml; no component is told.
LearnerEditsDeployment ==
    /\ deployment' \in Deployments \ {deployment}
    /\ call' = <<"edit", "deployment.yaml">>
    /\ ret' = "None"
    /\ alerts' = <<>>
    /\ invoked' = {}
    /\ UNCHANGED <<services, output, state, disk, manager, artifact, schedule, original, monitor>>

\* ServiceManager.get_all_services on the existing instance: the names of
\* list(self.services.values()).
GetAllServices ==
    /\ ret' = DOMAIN services
    /\ call' = <<"get_all_services">>
    /\ alerts' = <<>>
    /\ invoked' = {}
    /\ UNCHANGED <<services, output, state, disk, manager, deployment, artifact, schedule, original, monitor>>

\* create_service_manager_and_monitor: a new ServiceManager reads the file.
CreateServiceManagerAndMonitor ==
    /\ services' \in initialize_from_deployment(deployment, artifact)
    /\ invoked' = initialize_invoked(deployment)
    /\ call' = <<"ServiceManager">>
    /\ ret' = "None"
    /\ alerts' = <<>>
    /\ UNCHANGED <<output, state, disk, manager, deployment, artifact, schedule, original, monitor>>

NextReads ==
    \/ LearnerEditsDeployment
    \/ GetAllServices
    \/ GetSystemOverview
    \/ CreateServiceManagerAndMonitor

SpecReads == InitReads /\ [][NextReads]_vars

\* C22: a read of the services or of the alerts through an existing
\* ServiceManager reflects deployment.yaml as it is when the read is made: the
\* services returned are the ones the file declares now, and every alert is
\* about a service the file declares now.
C22_ReadsReflectTheEdit ==
    /\ call = <<"get_all_services">> => ret = service_manager_services(deployment)
    /\ call = <<"get_system_overview">> =>
          \A k \in 1..Len(alerts) :
              \E name \in service_manager_services(deployment) :
                  alerts[k].service_name = name[1]

(***************************************************************************)
(* SpecGates: the gated dashboards of cli.py                               *)
(*                                                                         *)
(* Each command builds a new ServiceManager and reads the names of its     *)
(* services; `output` holds the blocks the command prints.                 *)
(***************************************************************************)
\* "bulk" in content
contains_bulk(line) ==
    line.has \cap {BulkCallPattern, BulkTickersPattern, BareBulkPattern, BulkApiWord} # {}

\* fax_service_exists = any(s.config.name == "fax-service" for s in services)
gate_fax_service_exists(deployment_file) ==
    \E name \in service_manager_services(deployment_file) : name = FaxService

cmd_latency(deployment_file) ==
    {<<"LATENCY DASHBOARD">>}
    \cup (IF gate_fax_service_exists(deployment_file)
          THEN {<<"LATENCY ANALYSIS NOT AVAILABLE">>, <<"Complete Checkpoint 1 first">>}
          ELSE {<<"SERVICE RESPONSE TIMES">>})

cmd_scheduler(deployment_file, artifact_file, schedule_file) ==
    LET checkpoint_2_completed ==
            /\ artifact_file.exists
            /\ \E i \in 1..Len(artifact_file.content) :
                  \/ contains_bulk(artifact_file.content[i])
                  \/ BatchWord \in artifact_file.content[i].has
    IN  {<<"JOB SCHEDULE DASHBOARD">>}
        \cup (IF gate_fax_service_exists(deployment_file)
              THEN {<<"Scheduler dashboard not available">>, <<"Complete Checkpoint 1 first">>}
              ELSE IF ~checkpoint_2_completed
              THEN {<<"Advanced scheduler features not available">>,
                    <<"Complete Checkpoint 2 first">>}
              ELSE IF ~schedule_file.exists
              THEN {<<"Schedule configuration not found">>}
              ELSE {<<"SCHEDULED JOBS">>})

cmd_carbon(deployment_file) ==
    {<<"CARBON INTENSITY DASHBOARD">>}
    \cup (IF gate_fax_service_exists(deployment_file)
          THEN {<<"Carbon dashboard not available">>, <<"Complete Exercise 1 first">>}
          ELSE {<<"24-HOUR CARBON INTENSITY PROFILE">>})

cmd_checkpoint(checkpoint, action, deployment_file) ==
    IF checkpoint = "2" /\ action = "run-market-data"
    THEN {<<"Market Data Service - Checkpoint 2">>}
         \cup (IF gate_fax_service_exists(deployment_file)
               THEN {<<"Checkpoint 2 not available">>, <<"Complete Checkpoint 1 first">>}
               ELSE {<<"Running MARKET DATA SERVICE">>})
    ELSE {<<"Invalid checkpoint command">>}

CheckpointActions == {"run-market-data", "run"}

InitGates ==
    /\ deployment \in Deployments
    /\ artifact \in DashboardArtifacts
    /\ schedule \in DashboardSchedules \cup {NoFile}
    /\ call = <<"start">>
    /\ ret = "None"
    /\ state = NothingComplete
    /\ disk = [f \in Files |-> Absent]
    /\ manager = FALSE
    /\ NoServiceManager

CmdLatency ==
    /\ call = <<"start">>
    /\ output' = cmd_latency(deployment)
    /\ call' = <<"latency">>
    /\ UNCHANGED <<ret, state, disk, manager, deployment, artifact, schedule, services, alerts, invoked, original, monitor>>

CmdScheduler ==
    /\ call = <<"start">>
    /\ output' = cmd_scheduler(deployment, artifact, schedule)
    /\ call' = <<"scheduler">>
    /\ UNCHANGED <<ret, state, disk, manager, deployment, artifact, schedule, services, alerts, invoked, original, monitor>>

CmdCarbon ==
    /\ call = <<"start">>
    /\ output' = cmd_carbon(deployment)
    /\ call' = <<"carbon">>
    /\ UNCHANGED <<ret, state, disk, manager, deployment, artifact, schedule, services, alerts, invoked, original, monitor>>

CmdCheckpoint ==
    /\ call = <<"start">>
    /\ \E action \in CheckpointActions :
          /\ output' = cmd_checkpoint("2", action, deployment)
          /\ call' = <<"checkpoint", "2", action>>
    /\ UNCHANGED <<ret, state, disk, manager, deployment, artifact, schedule, services, alerts, invoked, original, monitor>>

NextGates ==
    \/ CmdLatency
    \/ CmdScheduler
    \/ CmdCarbon
    \/ CmdCheckpoint

SpecGates == InitGates /\ [][NextGates]_vars

\* What the four gated commands print once they are let through, or when a
\* later gate stops them.
GatedBlocks ==
    {<<"SERVICE RESPONSE TIMES">>, <<"SCHEDULED JOBS">>,
     <<"Advanced scheduler features not available">>, <<"Complete Checkpoint 2 first">>,
     <<"Schedule configuration not found">>, <<"24-HOUR CARBON INTENSITY PROFILE">>,
     <<"Running MARKET DATA SERVICE">>}

GatedCommands ==
    {<<"latency">>, <<"scheduler">>, <<"carbon">>, <<"checkpoint", "2", "run-market-data">>}

\* C23: while deployment.yaml still declares fax-service, the latency, the
\* scheduler and the carbon dashboard and `checkpoint 2 run-market-data`
\* print their refusal (complete Checkpoint / Exercise 1 first) and nothing
\* of what they show otherwise.
C23_DashboardsGatedOnStage1 ==
    (call \in GatedCommands /\ FaxDeclared) =>
        /\ output \cap {<<"Complete Checkpoint 1 first">>, <<"Complete Exercise 1 first">>} # {}
        /\ output \cap GatedBlocks = {}

(***************************************************************************)
(* SpecMain: the exit code of the CLI process                              *)
(***************************************************************************)
\* How args.func(args) ends inside main.
Outcomes == {"returned", "KeyboardInterrupt", "Exception"}

\* main: sys.exit(0) on KeyboardInterrupt, sys.exit(1) on any other
\* exception, and falling off the end (exit code 0) when the command returns.
main(outcome) ==
    IF outcome = "KeyboardInterrupt" THEN 0
    ELSE IF outcome = "Exception" THEN 1
    ELSE 0

\* cmd_validate prints the verdict and returns None whatever it is.
cmd_validate(success) == "returned"

\* `validate --checkpoint N` run as a process.
MainValidate ==
    /\ call = <<"start">>
    /\ \E checkpoint \in {"1", "2", "3"} :
          LET ensured == ensure_original_deployment(original, deployment)
              success == validate_exercise_completion(
                             checkpoint, ensured, deployment, artifact, schedule)
          IN  /\ original' = ensured
              /\ ret' = [success |-> success, exit_code |-> main(cmd_validate(success))]
              /\ call' = <<"main", "validate", checkpoint>>
    /\ UNCHANGED <<state, disk, manager, deployment, artifact, schedule, services, alerts, output, invoked, monitor>>

\* Any other command run as a process: it returns, is interrupted, or raises.
MainCommand ==
    /\ call = <<"start">>
    /\ \E outcome \in Outcomes :
          /\ ret' = [success |-> IF outcome = "returned" THEN "True" ELSE "False",
                     exit_code |-> main(outcome)]
          /\ call' = <<"main", "command", outcome>>
    /\ UNCHANGED <<state, disk, manager, deployment, artifact, schedule, services, alerts, output, invoked, original, monitor>>

NextMain ==
    \/ MainValidate
    \/ MainCommand

SpecMain == InitValidate /\ [][NextMain]_vars

\* C24: the process ends with exit code 1 when `validate --checkpoint N`
\* reports a failure or a command raises an unhandled error, and with exit
\* code 0 when the validation passes or the command succeeds.
C24_ExitCodeTellsFailure ==
    call[1] = "main" =>
        /\ (call[2] = "validate" /\ ret.success = "False") => ret.exit_code = 1
        /\ (call[2] = "validate" /\ ret.success = "True") => ret.exit_code = 0
        /\ (call[2] = "command" /\ call[3] = "Exception") => ret.exit_code = 1
        /\ (call[2] = "command" /\ call[3] = "returned") => ret.exit_code = 0

(***************************************************************************)
(* SpecReaders: the two readers of deployment.yaml                         *)
(***************************************************************************)
\* deployment.yaml as a reader can find it: missing, not decodable as text,
\* without a top-level services: key (its entries listed under another key),
\* or with one.
Descriptors ==
    {NoFile}
    \cup {[exists |-> TRUE, content |-> t, decodes |-> d, services_key |-> k] :
             t \in UNION {[1..n -> DeploymentEntries] : n \in 0..MaxServices},
             d \in BOOLEAN, k \in BOOLEAN}

\* The descriptor as SimpleYAMLParser hands it to DeploymentConfig: each
\* service by its name.
parse_file(file) == [file EXCEPT !.content = names_of(file.content)]

\* DeploymentLoader.get_service_configs: the names of the ServiceConfigs
get_service_configs(file) ==
    LET services_data == from_yaml(parse_file(file))
    IN  [i \in 1..Len(services_data) |-> remove_service_suffix(services_data[i])]

InitReaders ==
    /\ deployment \in Descriptors
    /\ artifact = NoFile
    /\ schedule = NoFile
    /\ call = <<"start">>
    /\ ret = "None"
    /\ state = NothingComplete
    /\ disk = [f \in Files |-> Absent]
    /\ manager = FALSE
    /\ NoServiceManager

ParseServicesFromYaml ==
    /\ call = <<"start">>
    /\ ret' = parse_services_from_yaml(deployment)
    /\ call' = <<"parse_services_from_yaml">>
    /\ UNCHANGED <<state, disk, manager, deployment, artifact, schedule, services, alerts, output, invoked, original, monitor>>

GetServiceConfigs ==
    /\ call = <<"start">>
    /\ ret' = get_service_configs(deployment)
    /\ call' = <<"get_service_configs">>
    /\ UNCHANGED <<state, disk, manager, deployment, artifact, schedule, services, alerts, output, invoked, original, monitor>>

NextReaders ==
    \/ ParseServicesFromYaml
    \/ GetServiceConfigs

SpecReaders == InitReaders /\ [][NextReaders]_vars

\* deployment.yaml cannot be opened or read, or has no services: key.
NoServicesReadable ==
    \/ ~deployment.exists
    \/ ~deployment.decodes
    \/ ~deployment.services_key

\* C25: when deployment.yaml cannot be opened or parsed, or has no top-level
\* services: key, the validator's reader and the DeploymentLoader both give
\* the empty list of services.
C25_UnreadableDescriptorGivesNoServices ==
    (call \in {<<"parse_services_from_yaml">>, <<"get_service_configs">>} /\ NoServicesReadable)
        => ret = <<>>

(***************************************************************************)
(* SpecCommands: the commands that only report, on the files on disk       *)
(***************************************************************************)
\* The disk before a command: the tracked files and the original snapshots
\* in any state, no other snapshot taken yet.
InitCommands ==
    /\ disk \in {d \in [Files -> Contents \cup {Absent}] :
                    \A f \in Files \ (TrackedFiles \cup OriginalFiles) : d[f] = Absent}
    /\ manager = FALSE
    /\ call = <<"start">>
    /\ ret = "None"
    /\ NoProgressInputs

\* `validate --checkpoint N`: YAMLValidator() constructs a BackupManager, whose
\* __init__ runs _ensure_original_backup; the validators only read.
CmdValidateOnDisk ==
    /\ \E checkpoint \in {"1", "2", "3"} : call' = <<"validate", checkpoint>>
    /\ disk' = ensure_original_backup(disk)
    /\ ret' = "None"
    /\ UNCHANGED <<manager, deployment, artifact, schedule, state, services, alerts, output, invoked, original, monitor>>

\* `status`: a ServiceManager and a Monitor read deployment.yaml and
\* get_market_data.py.
CmdStatus ==
    /\ call' = <<"status">>
    /\ disk' = disk
    /\ ret' = "None"
    /\ UNCHANGED <<manager, deployment, artifact, schedule, state, services, alerts, output, invoked, original, monitor>>

\* `software-carbon-intensity`: _analyze_exercise_completion_state reads the
\* three tracked files.
CmdSoftwareCarbonIntensity ==
    /\ call' = <<"software-carbon-intensity">>
    /\ disk' = disk
    /\ ret' = "None"
    /\ UNCHANGED <<manager, deployment, artifact, schedule, state, services, alerts, output, invoked, original, monitor>>

\* `backup list` and `backup status`: BackupManager() and list_backups.
CmdBackupReport ==
    /\ \E action \in {"list", "status"} : call' = <<"backup", action>>
    /\ disk' = ensure_original_backup(disk)
    /\ ret' = "None"
    /\ UNCHANGED <<manager, deployment, artifact, schedule, state, services, alerts, output, invoked, original, monitor>>

NextCommands ==
    \/ CmdValidateOnDisk
    \/ CmdStatus
    \/ CmdSoftwareCarbonIntensity
    \/ CmdBackupReport
    \/ LearnerEdit

SpecCommands == InitCommands /\ [][NextCommands]_vars

ReadOnlyCommands == {"validate", "status", "software-carbon-intensity", "backup"}

\* The tracked file an original snapshot is taken from.
SourceOf(f) ==
    IF f = original_backup_path THEN yaml_file_path
    ELSE IF f = schedule_original_backup_path THEN schedule_yaml_path
    ELSE get_market_data_path

\* C26: validate --checkpoint 1/2/3, status, software-carbon-intensity,
\* backup list and backup status leave deployment.yaml, schedule.yaml and
\* get_market_data.py as they were, and every file they do write is an
\* original snapshot that was missing and now holds its tracked file.
C26_ReadOnlyCommandsOnlyCreateOriginals ==
    [][call'[1] \in ReadOnlyCommands =>
          /\ TrackedUnchanged
          /\ \A f \in Files :
                disk'[f] # disk[f] =>
                    /\ f \in OriginalFiles
                    /\ disk[f] = Absent
                    /\ disk'[f] = disk[SourceOf(f)]]_vars

\* `validate --checkpoint 1` ran on edited tracked files after the originals
\* had been taken: the originals still differ from the tracked files.
C26_Witness ==
    /\ call = <<"validate", "1">>
    /\ \A f \in OriginalFiles : disk[f] # Absent /\ disk[f] # disk[SourceOf(f)]
    /\ \A f \in TrackedFiles : disk[f] # Absent

\* `backup status` ran where no original snapshot could have existed before
\* an earlier command: all three now hold their tracked files.
C26_WitnessCreated ==
    /\ call = <<"backup", "status">>
    /\ \A f \in OriginalFiles : disk[f] # Absent /\ disk[f] = disk[SourceOf(f)]

\* C27: after any start_service, stop_service and update_all_metrics calls,
\* get_system_overview counts every service once, total_services =
\* running_services + stopped_services + error_services, and every stopped
\* service has pid, start_time and metrics None.
C27_OverviewCountsAndStoppedServices ==
    /\ call = <<"get_system_overview">> =>
          /\ ret.total_services = Cardinality(DOMAIN services)
          /\ ret.total_services
                 = ret.running_services + ret.stopped_services + ret.error_services
    /\ \A n \in DOMAIN services :
          services[n].status = "stopped" =>
              /\ services[n].pid = <<>>
              /\ services[n].start_time = <<>>
              /\ services[n].metrics = <<>>

\* The overview was taken with one service stopped and another running.
C27_Witness ==
    /\ call = <<"get_system_overview">>
    /\ ret.stopped_services = 1
    /\ ret.running_services = 1

\* update_all_metrics ran while fax was stopped and market-data was running.
C27_WitnessUpdate ==
    /\ call = <<"update_all_metrics">>
    /\ Fax \in DOMAIN services
    /\ MarketData \in DOMAIN services
    /\ services[Fax].status = "stopped"
    /\ services[MarketData].metrics # <<>>

(***************************************************************************)
(* SpecHistory: Monitor._update_history on a ServiceManager whose services *)
(* are stopped in between                                                  *)
(***************************************************************************)
MaxHistory == 2

MaxTicks == 4

\* Monitor.max_history: 100 in the code, scaled down to the bounded run.
MaxHistories == 1..MaxHistory

\* seq[:k], the first k elements
slice_first(seq, k) == SubSeq(seq, 1, Min(k, Len(seq)))

\* seq[-k:], Python's slice of the last k elements (the whole list for k = 0)
slice_last(seq, k) ==
    IF k = 0 THEN seq ELSE SubSeq(seq, Max(1, Len(seq) - k + 1), Len(seq))

\* The latest timestamp the history holds; datetime.now() is later.
latest_timestamp(history) ==
    LET stamps == UNION {{history[n][i].timestamp : i \in 1..Len(history[n])} :
                            n \in DOMAIN history}
    IN  IF stamps = {} THEN 0 ELSE CHOOSE t \in stamps : \A u \in stamps : u <= t

history_point(timestamp, metrics) ==
    [timestamp |-> timestamp,
     cpu_usage |-> metrics.cpu_usage,
     response_time_p95 |-> metrics.response_time_p95]

\* Monitor._update_history(services), services given by their names
update_history(mon, svcs, listed, timestamp) ==
    LET recorded == {n \in listed : svcs[n].metrics # <<>>}
        before(n) == IF n \in DOMAIN mon.history THEN mon.history[n] ELSE <<>>
        appended(n) == Append(before(n), history_point(timestamp, svcs[n].metrics[1]))
    IN  [mon EXCEPT !.history =
            [n \in DOMAIN mon.history \cup recorded |->
                IF n \notin recorded THEN mon.history[n]
                ELSE IF Len(appended(n)) > mon.max_history
                THEN slice_last(appended(n), mon.max_history)
                ELSE appended(n)]]

HistoryDeployments == {File(<<FaxService, MarketDataService>>), File(<<MarketDataService>>)}

\* Monitor(ServiceManager()): an empty history and max_history.
InitHistory ==
    /\ deployment \in HistoryDeployments
    /\ artifact = File(<<LoopLine, SpotLine>>)
    /\ schedule = NoFile
    /\ services \in initialize_from_deployment(deployment, artifact)
    /\ monitor \in {[history |-> <<>>, max_history |-> k] : k \in MaxHistories}
    /\ invoked = {}
    /\ alerts = <<>>
    /\ output = {}
    /\ call = <<"Monitor">>
    /\ ret = "None"
    /\ state = NothingComplete
    /\ disk = [f \in Files |-> Absent]
    /\ manager = FALSE
    /\ original = NoFile

\* Monitor._update_history(services) on some of the manager's services.
UpdateHistory ==
    /\ latest_timestamp(monitor.history) < MaxTicks
    /\ \E listed \in SUBSET (DOMAIN services) \ {{}} :
          /\ monitor' = update_history(
                            monitor, services, listed, latest_timestamp(monitor.history) + 1)
          /\ call' = <<"_update_history", listed>>
    /\ ret' = "None"
    /\ invoked' = {}
    /\ alerts' = <<>>
    /\ output' = {}
    /\ UNCHANGED <<services, state, disk, manager, deployment, artifact, schedule, original>>

NextHistory ==
    \/ UpdateHistory
    \/ StopService

SpecHistory == InitHistory /\ [][NextHistory]_vars

\* The history of a service, empty if it has none yet.
HistoryOf(mon, n) == IF n \in DOMAIN mon.history THEN mon.history[n] ELSE <<>>

IsSuffix(s, t) == Len(s) <= Len(t) /\ s = SubSeq(t, Len(t) - Len(s) + 1, Len(t))

\* C28: every _update_history call leaves each service's history with at
\* most max_history points, which are the end of what it held before followed
\* by the point just recorded, as many of them as max_history allows; so the
\* history is always the most recent points in the order they were recorded.
C28_HistoryKeepsMostRecentPoints ==
    [][call'[1] = "_update_history" =>
          \A n \in DOMAIN services :
              LET old == HistoryOf(monitor, n)
                  new == HistoryOf(monitor', n)
                  records == n \in call'[2] /\ services[n].metrics # <<>>
                  all == IF records
                         THEN Append(old, history_point(latest_timestamp(monitor.history) + 1,
                                                        services[n].metrics[1]))
                         ELSE old
              IN  /\ Len(new) <= monitor.max_history
                  /\ IsSuffix(new, all)
                  /\ Len(new) = Min(monitor.max_history, Len(all))
                  /\ \A i \in 1..(Len(new) - 1) : new[i].timestamp < new[i + 1].timestamp]_vars

\* The history of market-data is full and its oldest point is not the first
\* one recorded.
C28_Witness ==
    /\ call[1] = "_update_history"
    /\ MarketData \in DOMAIN monitor.history
    /\ monitor.max_history = 2
    /\ Len(monitor.history[MarketData]) = 2
    /\ monitor.history[MarketData][1].timestamp = 3
    /\ monitor.history[MarketData][2].timestamp = 4
    /\ DOMAIN services = {MarketData}

(***************************************************************************)
(* SpecPrerequisites: the checkpoint-2 validator's classification followed *)
(* by the checkpoint-3 validator's prerequisite check on the same files    *)
(***************************************************************************)
\* validate_checkpoint_3.test_prerequisites_completed: its message
prerequisites_message(deployment_file, artifact_file) ==
    IF ~deployment_file.exists THEN "Could not load deployment"
    ELSE IF \E i \in 1..Len(deployment_file.content) : deployment_file.content[i] = FaxService
    THEN "Checkpoint 1 not completed (fax-service still present)"
    ELSE IF ~v3_check_market_data_optimization(artifact_file)
    THEN "Checkpoint 2 not completed (market data service not optimized)"
    ELSE "Prerequisites satisfied"

InitPrerequisites ==
    /\ deployment \in Deployments
    /\ artifact \in ArtifactTexts
    /\ schedule = NoFile
    /\ call = <<"start">>
    /\ ret = "None"
    /\ state = NothingComplete
    /\ disk = [f \in Files |-> Absent]
    /\ manager = FALSE
    /\ NoServiceManager

\* The checkpoint-3 validator's prerequisite check, run after the
\* checkpoint-2 classification of the same get_market_data.py.
TestPrerequisitesCompleted ==
    /\ call = <<"check_market_data_optimization">>
    /\ ret' = [is_optimized |-> ret,
               prerequisites |-> prerequisites_message(deployment, artifact)]
    /\ call' = <<"test_prerequisites_completed">>
    /\ UNCHANGED <<state, disk, manager, deployment, artifact, schedule, services, alerts, output, invoked, original, monitor>>

NextPrerequisites ==
    \/ ValidatorCheckMarketDataOptimization
    \/ TestPrerequisitesCompleted

SpecPrerequisites == InitPrerequisites /\ [][NextPrerequisites]_vars

\* C29: when the checkpoint-2 validator classified get_market_data.py as
\* optimized, the checkpoint-3 validator's prerequisite check on the same
\* file does not answer 'Checkpoint 2 not completed'.
C29_Checkpoint2PassAcceptedByCheckpoint3 ==
    (call = <<"test_prerequisites_completed">> /\ ret.is_optimized = "True")
        => ret.prerequisites # "Checkpoint 2 not completed (market data service not optimized)"

\* The configurations the loader gives the ServiceManager declare fax.
FaxLoaded ==
    \E i \in 1..Len(from_yaml(deployment)) : remove_service_suffix(from_yaml(deployment)[i]) = Fax

\* market-data carries the checkpoint-2 latency of an optimized artifact,
\* which no simulator reading produces.
WorkshopLatencyInstalled ==
    /\ MarketData \in DOMAIN services
    /\ services[MarketData].metrics = <<Metrics(100, 130)>>

\* C30: after ServiceManager(), the artifact classification has run and the
\* checkpoint-2 latency metrics are on market-data only if the descriptor
\* declares no fax, wherever in the list the services stand.
C30_WorkshopLatencyOnlyWithoutFax ==
    (call = <<"ServiceManager">> /\ FaxLoaded)
        => /\ "_check_market_data_optimization" \notin invoked
           /\ ~WorkshopLatencyInstalled
====
